---------------------------- MODULE Spec2Model ----------------------------
(* Wallet monitors of OM1: WalletBase (the poll / record / flush pipeline)  *)
(* and its three backends WalletEthereum, WalletSolana and WalletCoinbase.  *)
(*                                                                          *)
(* Amounts.  A balance is a float in the code.  Here it is held twice: as   *)
(* its reading, the integer count of millionths of the asset that the float *)
(* spells to 6 decimals (1 = 0.000001), and as the IEEE 754 double itself   *)
(* (see "Python floats" below).  Comparisons and the 5-decimal text are     *)
(* taken from the reading; the rounding of each float operation is taken    *)
(* from the double.  A buffered Message holds the text                      *)
(* f"{balance_change:.5f}"; it is modelled by the integer count of          *)
(* hundred-thousandths that the text spells ("0.00002" is 2).  The sampled  *)
(* balances are multiples of 0.000004, so that no delta lies half way       *)
(* between two 5-decimal texts (where the binary float decides the digit).  *)
EXTENDS Integers, Sequences, FiniteSets, TLC

MaxSample == 2
MaxEvents == 2
MaxWatchEvents == 1

None   == "None"      \* Python's None
Absent == "<absent>"  \* a key the returned dict does not have
Fail   == -1          \* the RPC / SDK call raised (in place of a balance)
NoSample == -1        \* no such sample yet
NoRaw  == << >>       \* no _poll output is waiting

\* Balances the chain can report, in millionths.
Samples == { 4 * k : k \in 0 .. MaxSample }

\* No sequence of reports is laid down.
Unscripted == << Fail >>

\* What the next network read can come back with.
Replies(sc) ==
  IF sc = Unscripted THEN Samples \cup { Fail }
  ELSE IF sc = << >> THEN { }
  ELSE { Head(sc) }

\* The reports left once a read has come back.
Rest(sc) == IF sc = Unscripted THEN sc ELSE Tail(sc)

\* random.randint(0, 10)
Dice == 0 .. 10

\* dice > 7, for every dice the generator can draw.
DiceHits == { d > 7 : d \in Dice }

Backends == { "WalletEthereum", "WalletSolana", "WalletCoinbase" }

\* Address of the monitored account, and of an unrelated account.
AddrA == "addrA"
AddrB == "addrB"

-----------------------------------------------------------------------------
(* Python floats                                                            *)
(*                                                                          *)
(* A double is written as the integer n with value n * 2^-70, exact for     *)
(* every double of magnitude between 2^-18 and 2^8 (and 0.0), which covers  *)
(* every balance and delta here.  n is held in three limbs                  *)
(* << l0, l1, l2 >>, n = l0 + l1 * Limb + l2 * Limb^2, with l0 and l1 in    *)
(* 0 .. Limb - 1 and l2 carrying the sign.                                  *)

Limb == 2 ^ 24

DZero == << 0, 0, 0 >>

\* Carries the limbs into range.
DNorm(x) ==
  LET c1 == x[2] + (x[1] \div Limb)
  IN << x[1] % Limb, c1 % Limb, x[3] + (c1 \div Limb) >>

\* Sum and difference as real numbers (no rounding).
DPlus(x, y) == DNorm(<< x[1] + y[1], x[2] + y[2], x[3] + y[3] >>)
DMinus(x, y) == DNorm(<< x[1] - y[1], x[2] - y[2], x[3] - y[3] >>)

\* Number of bits of n >= 0, a byte at a time.
RECURSIVE BitLength(_)
BitLength(n) ==
  IF n >= 256 THEN 8 + BitLength(n \div 256)
  ELSE IF n >= 16
    THEN IF n >= 64 THEN (IF n >= 128 THEN 8 ELSE 7)
                    ELSE (IF n >= 32 THEN 6 ELSE 5)
  ELSE IF n >= 4 THEN (IF n >= 8 THEN 4 ELSE 3)
  ELSE IF n >= 2 THEN 2
  ELSE n

\* Number of significant bits of n >= 0.
DLength(x) ==
  IF x[3] > 0 THEN 48 + BitLength(x[3])
  ELSE IF x[2] > 0 THEN 24 + BitLength(x[2])
  ELSE BitLength(x[1])

\* n >= 0 rounded to 53 significant bits, ties to the even significand.
RoundMagnitude(x) ==
  LET s == DLength(x) - 53
  IN IF s <= 0 THEN x
     ELSE IF s <= 24
       THEN LET p == 2 ^ s
                rem == x[1] % p
                odd == IF s < 24 THEN (x[1] \div p) % 2 = 1
                                 ELSE x[2] % 2 = 1
                up == rem * 2 > p \/ (rem * 2 = p /\ odd)
            IN DNorm(<< x[1] - rem + (IF up THEN p ELSE 0), x[2], x[3] >>)
       ELSE LET p == 2 ^ (s - 24)
                rem == x[2] % p
                odd == IF s < 48 THEN (x[2] \div p) % 2 = 1
                                 ELSE x[3] % 2 = 1
                up == \/ rem * 2 > p
                      \/ rem * 2 = p /\ x[1] > 0
                      \/ rem * 2 = p /\ x[1] = 0 /\ odd
            IN DNorm(<< 0, x[2] - rem + (IF up THEN p ELSE 0), x[3] >>)

\* The double nearest to the real number n * 2^-70 (round-half-even).
RoundDouble(x) ==
  IF x[3] < 0 THEN DMinus(DZero, RoundMagnitude(DMinus(DZero, x)))
  ELSE RoundMagnitude(x)

\* a + b and a - b on Python floats.
FloatAdd(a, b) == RoundDouble(DPlus(a, b))
FloatSub(a, b) == RoundDouble(DMinus(a, b))

\* float(<decimal>): the double nearest to q millionths.  A multiple of
\* 1/64 is a double already; the others are listed (float.hex() of each is
\* given).
Double(q) ==
  IF q % 15625 = 0 THEN << 0, 0, (q \div 15625) * (2 ^ 16) >>
  ELSE CASE q = 4 -> << 11922829, 13039520, 16 >>  \* 0x1.0c6f7a0b5ed8dp-18
         [] q = 8 -> << 7068442, 9301825, 33 >>    \* 0x1.0c6f7a0b5ed8dp-17
         [] q = 12 -> << 2214056, 5564130, 50 >>   \* 0x1.92a737110e454p-17
         [] q = 16 -> << 14136884, 1826434, 67 >>  \* 0x1.0c6f7a0b5ed8dp-16
         [] q = 100000 ->                          \* 0x1.999999999999ap-4
              << 6717440, 6710886, 419430 >>
         [] q = 400000 ->                          \* 0x1.999999999999ap-2
              << 10092544, 10066329, 1677721 >>
         [] q = 100300000 ->                       \* 0x1.9133333333333p+6
              << 0, 3355443, 420688691 >>

\* 1.0
One == Double(1000000)

-----------------------------------------------------------------------------

VARIABLES
  status,            \* "new" | "ready" | "failed": how __init__ ended
  backend,           \* the class being constructed
  private_key,       \* the signing credential as __init__ read it
  signer,            \* address of self.account / self.keypair, or None
  wallet_ok,         \* WalletCoinbase: self.wallet.default_address resolves
  simulate_transfers,
  balance,           \* self.balance: its reading
  balance_previous,  \* self.balance_previous: its reading
  balance_double,    \* self.balance: the double
  previous_double,   \* self.balance_previous: the double
  messages,          \* self.messages: <<[timestamp, message]>>
  io_inputs,         \* what io_provider.add_input was given, in order
  pc,                \* where the _poll coroutine is: "idle" | "sleep"
  raw,               \* [balance, balance_change] returned by _poll, not yet
                     \* passed to raw_to_text; NoRaw if there is none
  result,            \* what the last operation returned or raised
                     \* (failed: the network read inside it failed;
                     \* reported: what that read came back with)
  clock,             \* time.time(), as a count of Messages created
  init_sample,       \* history: the balance __init__ read
  prev_sample,       \* history: the balance sample before last_sample
  last_sample,       \* history: value of the latest fetch (or initial read)
  exact,             \* history: sum of the positive deltas recorded since
                     \* the last flush, in millionths
  summed,            \* history: timestamp -> [amount: the Message's text,
                     \* count: number of summaries it was added into]
  delta_sum,         \* history: float sum of the deltas _poll has returned
                     \* (kept while the chain follows a script)
  script             \* the network: balances the chain reports to the
                     \* coming reads, in order; Unscripted: any

walletVars == << backend, private_key, signer, wallet_ok,
                simulate_transfers >>
balanceVars == << balance, balance_previous, balance_double,
                 previous_double >>
bufferVars == << messages, io_inputs >>
histVars == << init_sample, prev_sample, last_sample, exact, summed,
              delta_sum >>
vars == << status, walletVars, balanceVars, bufferVars, pc, raw, result,
           clock, histVars, script >>

NoResult == [kind |-> "none"]

-----------------------------------------------------------------------------
(* Construction                                                             *)

\* os.environ as __init__ reads it: the address / wallet id, the signing
\* credential (private key, or the Coinbase API key pair), and whether the
\* first network read succeeds.
EnvAddress == { "unset", "valid", "malformed" }
EnvKey     == { "unset", "valid", "malformed" }

\* WalletEthereum.__init__: the address has a default; a key that does not
\* parse makes Account.from_key raise; no connection or a failing
\* get_balance raises.
EthereumInitFails(addr, key, reply) ==
  \/ key = "malformed"
  \/ reply = Fail
  \/ addr = "malformed"

\* Variant: an address that does not parse is not noticed.
SolanaInitFailsUnparsed(addr, key, reply) ==
  \/ addr = "unset"
  \/ reply = Fail

\* WalletSolana.__init__: no address raises ValueError; a key that does not
\* parse only logs a warning; Pubkey.from_string and get_balance raise.
SolanaInitFails(addr, key, reply) ==
  \/ addr = "unset"
  \/ addr = "malformed"
  \/ reply = Fail

\* WalletCoinbase.__init__: API credentials and wallet id are required;
\* Wallet.fetch and wallet.balance raise on failure.
CoinbaseInitFails(addr, key, reply) ==
  \/ key = "unset"
  \/ addr = "unset"
  \/ addr = "malformed"
  \/ key = "malformed"
  \/ reply = Fail

InitFails(bk, addr, key, reply) ==
  CASE bk = "WalletEthereum" -> EthereumInitFails(addr, key, reply)
    [] bk = "WalletSolana"   -> SolanaInitFails(addr, key, reply)
    [] bk = "WalletCoinbase" -> CoinbaseInitFails(addr, key, reply)

\* self.account / self.keypair after __init__ (WalletCoinbase has neither).
InitSigner(bk, key, keyaddr) ==
  IF bk # "WalletCoinbase" /\ key = "valid" THEN keyaddr ELSE None

\* WalletBase.__init__ sets both to 0.0; each backend then overwrites them
\* with the balance it read.
InitBalance(reply) == reply
\* Variant: balance_previous keeps the value WalletBase.__init__ gave it.
InitBalancePreviousDefault(reply) == 0

InitBalancePrevious(reply) == InitBalance(reply)

InitState(sc) ==
  /\ script = sc
  /\ delta_sum = DZero
  /\ status = "new"
  /\ backend \in Backends
  /\ private_key = "unset"
  /\ signer = None
  /\ wallet_ok = TRUE
  /\ simulate_transfers = FALSE
  /\ balance = 0
  /\ balance_previous = 0
  /\ balance_double = DZero
  /\ previous_double = DZero
  /\ messages = << >>
  /\ io_inputs = << >>
  /\ pc = "idle"
  /\ raw = NoRaw
  /\ result = NoResult
  /\ clock = 0
  /\ init_sample = NoSample
  /\ prev_sample = NoSample
  /\ last_sample = NoSample
  /\ exact = 0
  /\ summed = << >>

Init == InitState(Unscripted)

\* The chain reports 10.0 to the constructor, then 10.0, 12.5, 12.5 and
\* 11.0 to the poll cycles.
Scenario == << 10000000, 10000000, 12500000, 12500000, 11000000 >>

InitScenario == InitState(Scenario)

\* The chain reports 0.1 to the constructor, then 100.3 and 0.4 to the poll
\* cycles.
RoundingChain == << 100000, 100300000, 400000 >>

InitRounding == InitState(RoundingChain)

Construct ==
  /\ status = "new"
  /\ script' = Rest(script)
  /\ \E addr \in EnvAddress, key \in EnvKey, reply \in Replies(script),
        keyaddr \in {AddrA, AddrB}, sim \in BOOLEAN, wok \in BOOLEAN :
       /\ (backend # "WalletEthereum") => (sim = FALSE)
       /\ (backend # "WalletCoinbase") => (wok = TRUE)
       /\ IF InitFails(backend, addr, key, reply)
            THEN /\ status' = "failed"
                 /\ result' = [kind |-> "init", outcome |-> "raised",
                               address |-> addr, key |-> key]
                 /\ UNCHANGED << private_key, signer, wallet_ok,
                                 simulate_transfers, balanceVars,
                                 init_sample, last_sample >>
            ELSE /\ status' = "ready"
                 /\ result' = [kind |-> "init", outcome |-> "returned",
                               address |-> addr, key |-> key]
                 /\ private_key' = key
                 /\ signer' = InitSigner(backend, key, keyaddr)
                 /\ wallet_ok' = wok
                 /\ simulate_transfers' = sim
                 /\ balance' = InitBalance(reply)
                 /\ balance_previous' = InitBalancePrevious(reply)
                 /\ balance_double' = Double(InitBalance(reply))
                 /\ previous_double' = Double(InitBalancePrevious(reply))
                 /\ init_sample' = reply
                 /\ last_sample' = reply
  /\ UNCHANGED << backend, bufferVars, pc, raw, clock, prev_sample,
                  exact, summed, delta_sum >>

-----------------------------------------------------------------------------
(* fetch_balance                                                            *)

\* The try block failed (WalletEthereum, WalletSolana), or the call raised
\* (WalletCoinbase has no try block).
FetchRaises(bk, reply) == bk = "WalletCoinbase" /\ reply = Fail

\* Variant: the dice is rolled whatever the configuration says.
FetchValueDicing(bk, sim, reply, hit, bal) ==
  CASE bk = "WalletEthereum" ->
         IF reply = Fail THEN bal
         ELSE IF hit THEN reply + 1000000 ELSE reply
    [] bk = "WalletSolana" ->
         IF reply = Fail THEN bal ELSE reply
    [] bk = "WalletCoinbase" -> reply

\* Value fetch_balance returns when it does not raise.  reply is what the
\* chain reports (Fail: the RPC call raised, or Solana returned no value);
\* hit: the dice came out above 7.
FetchValue(bk, sim, reply, hit, bal) ==
  CASE bk = "WalletEthereum" ->
         IF reply = Fail THEN bal
         ELSE IF sim /\ hit THEN reply + 1000000 ELSE reply
    [] bk = "WalletSolana" ->
         IF reply = Fail THEN bal ELSE reply
    [] bk = "WalletCoinbase" -> reply

\* The same value as a double.  float(from_wei(...)), lamports / 1e9 and
\* float(wallet.balance(asset)) are each the double nearest to the balance
\* reported; balance_eth += 1.0 is a float addition.
FetchDouble(bk, sim, reply, hit, bal) ==
  CASE bk = "WalletEthereum" ->
         IF reply = Fail THEN bal
         ELSE IF sim /\ hit THEN FloatAdd(Double(reply), One)
         ELSE Double(reply)
    [] bk = "WalletSolana" ->
         IF reply = Fail THEN bal ELSE Double(reply)
    [] bk = "WalletCoinbase" -> Double(reply)

-----------------------------------------------------------------------------
(* WalletBase._poll                                                         *)

\* self.wallet = Wallet.fetch(...): WalletCoinbase.fetch_balance replaces
\* the SDK wallet, whose default address may or may not resolve.  The
\* wallet is replaced before wallet.balance is read, so it is replaced also
\* when that read raises; when Wallet.fetch itself raises it is kept (the
\* choice of the value it had).
Refetched(bk, wok) == IF bk = "WalletCoinbase" THEN BOOLEAN ELSE {wok}

\* Variant: the change is computed after balance_previous was overwritten.
BalanceChangeAfterUpdate(cur, prev) ==
  [reading |-> cur.reading - cur.reading,
   double |-> FloatSub(cur.double, cur.double)]

\* self.balance - self.balance_previous, a float subtraction.  The doubles
\* are within 2^-46 of their readings, so the difference reads as the
\* difference of the readings.
BalanceChange(cur, prev) ==
  [reading |-> cur.reading - prev.reading,
   double |-> FloatSub(cur.double, prev.double)]

\* Variant: balance_previous only follows a balance that went up.
NextPreviousOnGain(cur, prev) ==
  IF cur.reading > prev.reading THEN cur ELSE prev

\* self.balance_previous = self.balance
NextPrevious(cur, prev) == cur

\* Variant: the cycle clears the balance before it waits for the new one.
PollSleepClearing ==
  /\ status = "ready"
  /\ pc = "idle"
  /\ raw = NoRaw
  /\ clock < MaxEvents
  /\ Replies(script) # { }
  /\ pc' = "sleep"
  /\ balance' = 0
  /\ balance_double' = DZero
  /\ UNCHANGED << status, walletVars, balance_previous, previous_double,
                  bufferVars, raw, result, clock, histVars, script >>

\* await asyncio.sleep(self.POLL_INTERVAL): the coroutine is suspended.
PollSleep ==
  /\ status = "ready"
  /\ pc = "idle"
  /\ raw = NoRaw
  /\ clock < MaxEvents
  /\ Replies(script) # { }
  /\ pc' = "sleep"
  /\ UNCHANGED << status, walletVars, balanceVars, bufferVars, raw, result,
                  clock, histVars, script >>

\* The rest of _poll; fetch_balance never suspends, so it is one step.
PollFetch ==
  /\ pc = "sleep"
  /\ pc' = "idle"
  /\ script' = Rest(script)
  /\ \E reply \in Replies(script), hit \in DiceHits,
        wok \in Refetched(backend, wallet_ok) :
       IF FetchRaises(backend, reply)
         THEN /\ result' = [kind |-> "poll", outcome |-> "raised"]
              /\ wallet_ok' = wok
              /\ UNCHANGED << balanceVars, raw, prev_sample, last_sample,
                              delta_sum >>
         ELSE LET cur == FetchValue(backend, simulate_transfers, reply,
                                    hit, balance)
                  curd == FetchDouble(backend, simulate_transfers, reply,
                                      hit, balance_double)
                  new == [reading |-> cur, double |-> curd]
                  old == [reading |-> balance_previous,
                          double |-> previous_double]
                  delta == BalanceChange(new, old)
                  change == delta.reading
                  kept == NextPrevious(new, old)
              IN /\ balance' = cur
                 /\ balance_double' = curd
                 /\ balance_previous' = kept.reading
                 /\ previous_double' = kept.double
                 /\ raw' = << cur, change >>
                 /\ result' = [kind |-> "poll", outcome |-> "returned",
                               failed |-> (reply = Fail),
                               reported |-> reply,
                               balance |-> cur, change |-> change]
                 /\ wallet_ok' = wok
                 /\ prev_sample' = last_sample
                 /\ last_sample' = cur
                 /\ delta_sum' = IF script = Unscripted THEN delta_sum
                                  ELSE FloatAdd(delta_sum, delta.double)
  /\ UNCHANGED << status, backend, private_key, signer,
                  simulate_transfers, bufferVars, clock, init_sample, exact,
                  summed >>

\* The host cancels the task while it is suspended in the sleep.
PollCancel ==
  /\ pc = "sleep"
  /\ pc' = "idle"
  /\ result' = [kind |-> "poll", outcome |-> "cancelled"]
  /\ UNCHANGED << status, walletVars, balanceVars, bufferVars, raw, clock,
                  histVars, script >>

-----------------------------------------------------------------------------
(* WalletBase._raw_to_text, raw_to_text                                     *)

\* f"{balance_change:.5f}": millionths to the nearest hundred-thousandth.
Format5(x) == (x + 5) \div 10

\* float(message.message), in millionths.
ParseFloat(text) == text * 10

\* Variant: a zero change is recorded too.
IsReceiptOrZero(change) == change >= 0

\* if balance_change > 0
IsReceipt(change) == change > 0

\* Variant: a loss is recorded as well, by its size.
RawToTextMessageAbs(change, now) ==
  IF change # 0
    THEN << [timestamp |-> now,
             message |-> Format5(IF change < 0 THEN 0 - change ELSE change)] >>
    ELSE << >>

\* _raw_to_text: << the Message >>, or << >> for None.
RawToTextMessage(change, now) ==
  IF IsReceipt(change)
    THEN << [timestamp |-> now, message |-> Format5(change)] >>
    ELSE << >>

\* Variant: the append works on a buffer read before a flush and written
\* back after it, so only the new Message is left.
RecordedOverwriting(msgs, pending) ==
  IF pending # << >> THEN << pending[1] >> ELSE msgs

\* raw_to_text: the buffer after the call.
Recorded(msgs, pending) ==
  IF pending # << >> THEN Append(msgs, pending[1]) ELSE msgs

RawToText ==
  /\ status = "ready"
  /\ raw # NoRaw
  /\ LET change == raw[2]
         pending == RawToTextMessage(change, clock + 1)
     IN /\ messages' = Recorded(messages, pending)
        /\ clock' = IF pending # << >> THEN clock + 1 ELSE clock
        /\ exact' = IF change > 0 THEN exact + change ELSE exact
        /\ summed' = IF pending # << >>
                       THEN Append(summed, [amount |-> pending[1].message,
                                            count  |-> 0])
                       ELSE summed
        /\ result' = [kind |-> "record", change |-> change]
  /\ raw' = NoRaw
  /\ UNCHANGED << status, walletVars, balanceVars, io_inputs, pc,
                  init_sample, prev_sample, last_sample, delta_sum,
                  script >>

-----------------------------------------------------------------------------
(* WalletBase.formatted_latest_buffer                                       *)

\* Variant: only the latest message is used.
LoopMessagesLatest(msgs) == << msgs[Len(msgs)] >>

\* for message in self.messages: the messages the loop visits.
LoopMessages(msgs) == msgs

RECURSIVE TransactionSum(_)
\* transaction_sum over the visited messages, in millionths.
TransactionSum(msgs) ==
  IF msgs = << >> THEN 0
  ELSE ParseFloat(Head(msgs).message) + TransactionSum(Tail(msgs))

\* Variant: the asset is printed as configured.
UpperCaseNot(asset) == asset

\* str.upper()
UpperCase(asset) ==
  CASE asset = "eth" -> "ETH"
    [] asset = "sol" -> "SOL"
    [] OTHER -> asset

\* config.primary_asset of a default SensorConfig.
PrimaryAsset(bk) == IF bk = "WalletSolana" THEN "sol" ELSE "eth"

\* result_message: "You just received <amount> <ASSET>."
ResultMessage(msgs, asset) ==
  [timestamp |-> msgs[Len(msgs)].timestamp,
   amount    |-> Format5(TransactionSum(LoopMessages(msgs))),
   asset     |-> UpperCase(asset)]

\* result_message.message as the pieces the f-string joins; the amount
\* piece stands for the digits of f"{transaction_sum:.5f}".
SummaryLine(m) ==
  << "You just received ", m.amount, " ", m.asset, "." >>

\* The string formatted_latest_buffer returns, line by line.
ReturnedText(bk, m) ==
  << "", << bk, " INPUT" >>, "// START", SummaryLine(m), "// END", "" >>

\* Variant: the buffer is not reset.
ClearedNot(msgs) == msgs

\* self.messages = []
Cleared(msgs) == << >>

\* Variant: no early return; an empty buffer is summarised as 0.
FlushOutcomeNoGuard(msgs, io, asset) ==
  LET m == [timestamp |-> IF msgs = << >> THEN 0
                          ELSE msgs[Len(msgs)].timestamp,
            amount    |-> Format5(TransactionSum(msgs)),
            asset     |-> UpperCase(asset)]
  IN [empty |-> FALSE, value |-> m, messages |-> << >>,
      io_inputs |-> Append(io, m)]

\* formatted_latest_buffer: what it returns (empty: None), the buffer it
\* leaves and what the IO provider has been given.
FlushOutcome(msgs, io, asset) ==
  IF Len(msgs) = 0
    THEN [empty |-> TRUE, messages |-> msgs, io_inputs |-> io]
    ELSE [empty |-> FALSE, value |-> ResultMessage(msgs, asset),
          messages |-> Cleared(msgs),
          io_inputs |-> Append(io, ResultMessage(msgs, asset))]

\* Timestamps of the messages a flush adds into its summary.
Summarised(msgs) ==
  { LoopMessages(msgs)[i].timestamp : i \in 1 .. Len(LoopMessages(msgs)) }

FormattedLatestBuffer ==
  /\ status = "ready"
  /\ LET out == FlushOutcome(messages, io_inputs, PrimaryAsset(backend))
     IN /\ messages' = out.messages
        /\ io_inputs' = out.io_inputs
        /\ IF out.empty
             THEN /\ result' = [kind |-> "flush", empty |-> TRUE]
                  /\ UNCHANGED << exact, summed >>
             ELSE /\ result' = [kind |-> "flush", empty |-> FALSE,
                                value |-> out.value, exact |-> exact,
                                text |-> ReturnedText(backend, out.value)]
                  /\ exact' = 0
                  /\ summed' = [t \in DOMAIN summed |->
                                  IF t \in Summarised(messages)
                                    THEN [summed[t] EXCEPT !.count = @ + 1]
                                    ELSE summed[t]]
  /\ UNCHANGED << status, walletVars, balanceVars, pc, raw, clock,
                  init_sample, prev_sample, last_sample, delta_sum,
                  script >>

-----------------------------------------------------------------------------
(* transfer                                                                 *)

\* What str(e) can be for the exception a failing step raises.
ExcTexts == { "", "insufficient funds" }

ToAddresses == { "valid", "malformed" }

\* Amounts a caller passes, in millionths.
Amounts == { 0, 4 }

Assets == { "eth", "sol", "btc" }

\* get_supported_assets
SupportedAssets(bk) ==
  CASE bk = "WalletEthereum" -> { "eth" }
    [] bk = "WalletSolana"   -> { "sol" }
    [] bk = "WalletCoinbase" -> { "eth", "usdc", "weth", "gwei" }

\* The calls inside the try block, in program order; net: the call goes to
\* the network.
EthereumTransferSteps ==
  << [name |-> "to_checksum_address",   net |-> FALSE],
     [name |-> "get_transaction_count", net |-> TRUE],
     [name |-> "gas_price",             net |-> TRUE],
     [name |-> "to_wei",                net |-> FALSE],
     [name |-> "chain_id",              net |-> TRUE],
     [name |-> "sign_transaction",      net |-> FALSE],
     [name |-> "send_raw_transaction",  net |-> TRUE] >>

SolanaTransferSteps ==
  << [name |-> "Pubkey.from_string",     net |-> FALSE],
     [name |-> "TransferParams",         net |-> FALSE],
     [name |-> "get_latest_blockhash",   net |-> TRUE],
     [name |-> "new_with_payer",         net |-> FALSE],
     [name |-> "sign",                   net |-> FALSE],
     [name |-> "send_transaction",       net |-> TRUE] >>

CoinbaseTransferSteps ==
  << [name |-> "wallet.transfer",    net |-> TRUE],
     [name |-> "wait",               net |-> TRUE],
     [name |-> "get_wallet_address", net |-> FALSE] >>

TransferSteps(bk) ==
  CASE bk = "WalletEthereum" -> EthereumTransferSteps
    [] bk = "WalletSolana"   -> SolanaTransferSteps
    [] bk = "WalletCoinbase" -> CoinbaseTransferSteps

\* The step that cannot succeed on these arguments, 0 if every step can: a
\* recipient that does not parse (the Coinbase API refuses it), or a
\* Coinbase wallet whose default address does not resolve.
ForcedFailure(bk, wok, to) ==
  IF to = "malformed" THEN 1
  ELSE IF bk = "WalletCoinbase" /\ ~wok THEN 3
  ELSE 0

\* fail = 0: no step raises; fail = k: step k raises.
FailureChoices(bk, wok, to) ==
  LET f == ForcedFailure(bk, wok, to)
  IN IF f = 0 THEN 0 .. Len(TransferSteps(bk)) ELSE 1 .. f

RECURSIVE NetCalls(_, _)
\* Network calls among the first n steps.
NetCalls(steps, n) ==
  IF n = 0 THEN 0
  ELSE NetCalls(steps, n - 1) + (IF steps[n].net THEN 1 ELSE 0)

\* Variant: the check for a missing key is left out.
ReadOnlyGateMissing(bk, sg) == FALSE

\* if not self.account / if not self.keypair; WalletCoinbase has no gate.
ReadOnlyGate(bk, sg) == bk # "WalletCoinbase" /\ sg = None

NoKeyError == "No private key configured (read-only mode)"

\* The address each backend reports as from_address.
FromAddress(bk, sg) == IF bk = "WalletCoinbase" THEN AddrA ELSE sg

\* Variant: a submitted transfer is reported with a status of its own.
SuccessStatusSubmitted(bk) == "submitted"

SuccessStatus(bk) == IF bk = "WalletCoinbase" THEN "completed" ELSE "pending"

\* What transfer returns.
TransferResult(bk, sg, to, amount, asset, fail, text) ==
  LET steps == TransferSteps(bk)
      base  == [kind |-> "transfer", outcome |-> "returned",
                amount |-> amount, asset |-> asset, to_address |-> to]
  IN IF ReadOnlyGate(bk, sg)
       THEN base @@ [status |-> "failed", transaction_hash |-> None,
                     from_address |-> Absent, error |-> NoKeyError,
                     net_calls |-> 0]
     ELSE IF fail = 0
       THEN base @@ [status |-> SuccessStatus(bk),
                     transaction_hash |-> "tx",
                     from_address |-> FromAddress(bk, sg),
                     error |-> Absent,
                     net_calls |-> NetCalls(steps, Len(steps))]
     ELSE base @@ [status |-> "failed", transaction_hash |-> None,
                   from_address |-> Absent, error |-> text,
                   net_calls |-> NetCalls(steps, fail)]

\* Variant: a transfer that went out is taken off balance_previous.
TransferDebiting ==
  /\ status = "ready"
  /\ \E to \in ToAddresses, amount \in Amounts, asset \in Assets,
        text \in ExcTexts :
       \E fail \in FailureChoices(backend, wallet_ok, to) :
         LET r == TransferResult(backend, signer, to, amount, asset,
                                 fail, text)
         IN /\ result' = r
            /\ balance_previous' = IF r.status = "failed"
                                     THEN balance_previous
                                     ELSE balance_previous - amount
  /\ UNCHANGED << status, walletVars, balance, balance_double,
                  previous_double, bufferVars, pc, raw, clock, histVars,
                  script >>

Transfer ==
  /\ status = "ready"
  /\ \E to \in ToAddresses, amount \in Amounts, asset \in Assets,
        text \in ExcTexts :
       \E fail \in FailureChoices(backend, wallet_ok, to) :
         result' = TransferResult(backend, signer, to, amount, asset,
                                  fail, text)
  /\ UNCHANGED << status, walletVars, balanceVars, bufferVars, pc, raw,
                  clock, histVars, script >>

-----------------------------------------------------------------------------
(* sign_message                                                             *)

\* get_wallet_address raises: only WalletCoinbase reads the SDK wallet.
AddressRaises(bk, wok) == bk = "WalletCoinbase" /\ ~wok

\* get_wallet_address
WalletAddress(bk) == AddrA

\* The except handler of sign_message: the failed result it builds, or the
\* exception that building it raises.
SignFailure(bk, wok, text) ==
  IF AddressRaises(bk, wok)
    THEN [kind |-> "sign", outcome |-> "raised"]
    ELSE [kind |-> "sign", outcome |-> "returned", status |-> "failed",
          signature |-> None, address |-> WalletAddress(bk),
          error |-> text, net_calls |-> IF bk = "WalletCoinbase"
                                          THEN 1 ELSE 0]

\* What sign_message returns or raises.  fails: the SDK's signing call
\* raises, with str(e) = text.
SignResult(bk, sg, wok, fails, text) ==
  IF ReadOnlyGate(bk, sg)
    THEN [kind |-> "sign", outcome |-> "returned", status |-> "failed",
          signature |-> None, address |-> WalletAddress(bk),
          error |-> NoKeyError, net_calls |-> 0]
  ELSE IF fails \/ AddressRaises(bk, wok)
    THEN SignFailure(bk, wok, text)
  ELSE [kind |-> "sign", outcome |-> "returned", status |-> "success",
        signature |-> "sig",
        address |-> IF bk = "WalletCoinbase" THEN WalletAddress(bk) ELSE sg,
        error |-> Absent,
        net_calls |-> IF bk = "WalletCoinbase" THEN 1 ELSE 0]

SignMessage ==
  /\ status = "ready"
  /\ \E fails \in BOOLEAN, text \in ExcTexts :
       result' = SignResult(backend, signer, wallet_ok, fails, text)
  /\ UNCHANGED << status, walletVars, balanceVars, bufferVars, pc, raw,
                  clock, histVars, script >>

-----------------------------------------------------------------------------
(* fetch_balance called by the host, outside _poll                          *)

\* Variant: the value read is stored as the wallet's balance.
FetchBalanceStoring ==
  /\ status = "ready"
  /\ \E reply \in Samples :
       /\ balance' = reply
       /\ balance_double' = Double(reply)
       /\ result' = [kind |-> "fetch", outcome |-> "returned",
                     failed |-> FALSE, reported |-> reply,
                     value |-> reply]
  /\ UNCHANGED << status, walletVars, balance_previous, previous_double,
                  bufferVars, pc, raw, clock, histVars, script >>

FetchBalance ==
  /\ status = "ready"
  /\ script' = Rest(script)
  /\ \E reply \in Replies(script), hit \in DiceHits,
        wok \in Refetched(backend, wallet_ok) :
       IF FetchRaises(backend, reply)
         THEN /\ result' = [kind |-> "fetch", outcome |-> "raised"]
              /\ wallet_ok' = wok
         ELSE /\ result' = [kind |-> "fetch", outcome |-> "returned",
                            failed |-> (reply = Fail),
                            reported |-> reply,
                            value |-> FetchValue(backend,
                                        simulate_transfers, reply, hit,
                                        balance)]
              /\ wallet_ok' = wok
  /\ UNCHANGED << status, backend, private_key, signer,
                  simulate_transfers, balanceVars, bufferVars, pc, raw,
                  clock, histVars >>

-----------------------------------------------------------------------------

Next ==
  \/ Construct
  \/ PollSleep
  \/ PollFetch
  \/ PollCancel
  \/ RawToText
  \/ FormattedLatestBuffer

\* The operations the host calls on the backend directly.
NextOps ==
  \/ Construct
  \/ FetchBalance
  \/ Transfer
  \/ SignMessage

\* The pipeline with the host also calling fetch_balance at any point,
\* followed until MaxWatchEvents Messages exist.
NextWatch ==
  \/ Construct
  \/ PollSleep /\ clock < MaxWatchEvents
  \/ PollFetch
  \/ PollCancel
  \/ RawToText
  \/ FormattedLatestBuffer
  \/ FetchBalance

\* No poll cycle has completed yet.
FirstCycle == prev_sample = NoSample

\* The first poll cycle with the host also calling transfer and
\* sign_message at any point.
NextSend ==
  \/ Construct
  \/ PollSleep /\ FirstCycle
  \/ PollFetch
  \/ PollCancel
  \/ RawToText
  \/ FormattedLatestBuffer
  \/ Transfer
  \/ SignMessage

Spec == Init /\ [][Next]_vars

SpecWatch == Init /\ [][NextWatch]_vars

\* The pipeline against the chain of Scenario.
SpecScenario == InitScenario /\ [][Next]_vars
SpecRounding == InitRounding /\ [][Next]_vars

SpecSend == Init /\ [][NextSend]_vars

SpecOps == Init /\ [][NextOps]_vars

-----------------------------------------------------------------------------
(* Properties                                                               *)

PollReturned == result.kind = "poll" /\ result.outcome = "returned"

\* C1: after every poll cycle, and after construction, balance_previous is
\* the latest sample (the value that cycle's fetch_balance returned),
\* whatever the sign of the cycle's delta.
C1_PreviousIsLatestSample ==
  status = "ready" => balance_previous = last_sample

\* C1 witness: a cycle with a negative delta has completed.
C1_Witness ==
  /\ PollReturned
  /\ result.change < 0
  /\ balance_previous = last_sample

\* C2: the delta a poll cycle emits is that cycle's sample minus the sample
\* of the cycle before it (the construction read for the first cycle).
C2_DeltaAgainstPrecedingSample ==
  /\ PollReturned => result.change = last_sample - prev_sample
  /\ raw # NoRaw => /\ raw[1] = last_sample
                    /\ raw[2] = last_sample - prev_sample

\* C2 witness: a positive delta right after a cycle that went down, so the
\* preceding sample is not the last one that produced a positive delta.
C2_Witness ==
  /\ PollReturned
  /\ result.change > 0
  /\ clock = 0
  /\ last_sample <= init_sample

\* C3: raw_to_text appends exactly one Message when the delta is > 0 and
\* leaves the buffer as it was otherwise.
C3_RecordIffPositive ==
  [][ RawToText =>
        IF raw[2] > 0
          THEN /\ Len(messages') = Len(messages) + 1
               /\ SubSeq(messages', 1, Len(messages)) = messages
          ELSE messages' = messages ]_vars

\* C3 witness: a non-positive delta was recorded and left the one buffered
\* Message of an earlier positive delta alone.
C3_Witness ==
  /\ result.kind = "record"
  /\ result.change <= 0
  /\ Len(messages) = 1

FlushReturned == result.kind = "flush" /\ ~result.empty

\* C4: the amount a summary reports is the exact sum of the positive deltas
\* recorded since the previous flush (printed to 5 decimals).
C4_SummaryIsExactSum ==
  FlushReturned => result.value.amount = Format5(result.exact)

RECURSIVE SumAmounts(_)
SumAmounts(seq) ==
  IF seq = << >> THEN 0 ELSE Head(seq).amount + SumAmounts(Tail(seq))

Buffered == { messages[i].timestamp : i \in 1 .. Len(messages) }

\* C5: every recorded Message is added into exactly one summary, the first
\* flush after it: a buffered Message is in no summary yet, a Message no
\* longer buffered is in exactly one, no Message is buffered twice, the
\* summaries add up to the Messages they took, and a flush leaves nothing.
C5_EachEventInOneSummary ==
  /\ DOMAIN summed = 1 .. clock
  /\ \A t \in DOMAIN summed :
       summed[t].count = IF t \in Buffered THEN 0 ELSE 1
  /\ Cardinality(Buffered) = Len(messages)
  /\ SumAmounts(io_inputs) =
       SumAmounts([t \in DOMAIN summed |->
                     [amount |-> summed[t].amount * summed[t].count]])
  /\ result.kind = "flush" => messages = << >>

\* C5 witness: two Messages were buffered and one flush took them both.
C5_Witness ==
  /\ Len(io_inputs) = 1
  /\ clock = 2
  /\ \A t \in DOMAIN summed : summed[t].count = 1

\* C6: a flush leaves the buffer empty, and a flush with no record of a
\* positive delta since the previous flush returns None.
C6_FlushLeavesEmpty ==
  [][ FormattedLatestBuffer =>
        /\ messages' = << >>
        /\ (exact = 0 => result'.empty) ]_vars

\* C6 witness: a flush returned a summary and a later flush, with nothing
\* recorded in between, returned None.
C6_Witness ==
  /\ result.kind = "flush"
  /\ result.empty
  /\ Len(io_inputs) = 1
  /\ clock = 1

\* C7: a flush of an empty buffer returns None, gives the IO provider
\* nothing and leaves buffer, balance and balance_previous as they were.
C7_EmptyFlushNoEffect ==
  [][ (FormattedLatestBuffer /\ messages = << >>) =>
        /\ result'.empty
        /\ UNCHANGED << messages, io_inputs, balance, balance_previous >>
    ]_vars

\* C7 witness: a flush of an empty buffer has returned None before
\* anything was ever recorded.
C7_Witness ==
  /\ result.kind = "flush"
  /\ result.empty
  /\ clock = 0
  /\ io_inputs = << >>

\* C8: a wallet constructed without a signing credential answers every
\* transfer and every sign_message with status failed and the missing-key
\* error, without a network call.
C8_ReadOnlyRefuses ==
  (status = "ready" /\ private_key = "unset"
     /\ result.kind \in {"transfer", "sign"}) =>
    /\ result.outcome = "returned"
    /\ result.status = "failed"
    /\ result.error = NoKeyError
    /\ result.net_calls = 0

\* C8 witness: a transfer with valid arguments was refused in read-only
\* mode.
C8_Witness ==
  /\ status = "ready"
  /\ private_key = "unset"
  /\ result.kind = "transfer"
  /\ result.to_address = "valid"
  /\ result.amount > 0
  /\ result.asset = PrimaryAsset(backend)
  /\ result.status = "failed"

\* C9: transfer never raises; when a step fails it returns status failed
\* with a non-empty error string.
C9_TransferFailsWithError ==
  result.kind = "transfer" =>
    /\ result.outcome = "returned"
    /\ result.status = "failed" => result.error \notin {Absent, ""}

\* C10: sign_message never raises; a failure is returned as a result with
\* status failed and an error field.
C10_SignNeverRaises ==
  result.kind = "sign" =>
    /\ result.outcome = "returned"
    /\ result.status = "failed" => result.error # Absent

\* C11: on every backend a network failure inside fetch_balance is not
\* raised to the caller; the call returns the last known balance.
C11_FetchNeverRaises ==
  result.kind = "fetch" =>
    /\ result.outcome = "returned"
    /\ result.failed => result.value = balance

\* The last operation was a poll cycle whose balance read failed.
PollFailed ==
  /\ result.kind = "poll"
  /\ \/ result.outcome = "raised"
     \/ result.outcome = "returned" /\ result.failed

\* C12: a poll cycle whose balance fetch fails raises nothing from the
\* sampler, emits a delta of 0 and hands raw_to_text nothing to record.
C12_FailedPollIsSilent ==
  PollFailed =>
    /\ result.outcome = "returned"
    /\ result.change = 0
    /\ raw # NoRaw
    /\ RawToTextMessage(raw[2], clock + 1) = << >>

TransferReturned == result.kind = "transfer" /\ result.outcome = "returned"

\* C13: on every backend, with or without a signing credential, a transfer
\* of amount 0 returns status failed and has made no network call.
C13_ZeroAmountRejected ==
  (TransferReturned /\ result.amount = 0) =>
    /\ result.status = "failed"
    /\ result.net_calls = 0

\* C14: on every backend a transfer to a recipient that does not parse as
\* an address returns status failed with an error, and no network call was
\* made by the time it returns.
C14_BadRecipientRejected ==
  (result.kind = "transfer" /\ result.to_address = "malformed") =>
    /\ result.outcome = "returned"
    /\ result.status = "failed"
    /\ result.error # Absent
    /\ result.net_calls = 0

\* C15: a transfer of an asset that get_supported_assets() does not list
\* returns status failed: it does not raise and submits no transaction.
C15_UnsupportedAssetRejected ==
  (result.kind = "transfer"
     /\ result.asset \notin SupportedAssets(backend)) =>
    /\ result.outcome = "returned"
    /\ result.status = "failed"
    /\ result.transaction_hash = None

\* C16: every result of transfer has status pending, completed or failed;
\* it has an error field exactly when the status is failed, and no
\* transaction reference exactly when the status is failed.
C16_TransferResultShape ==
  TransferReturned =>
    /\ result.status \in { "pending", "completed", "failed" }
    /\ (result.error # Absent) <=> (result.status = "failed")
    /\ (result.transaction_hash = None) <=> (result.status = "failed")

\* C16 witness: a transfer whose submission was refused by the network came
\* back failed, with the error and without a transaction reference.
C16_Witness ==
  /\ TransferReturned
  /\ result.status = "failed"
  /\ result.net_calls > 0
  /\ result.error \notin { Absent, NoKeyError }
  /\ result.transaction_hash = None

\* C17: on every backend, construction with the account address or wallet
\* identifier absent from the environment fails with an error.
C17_MissingAddressIsFatal ==
  (result.kind = "init" /\ result.address = "unset") =>
    /\ result.outcome = "raised"
    /\ status = "failed"

\* C18: WalletSolana given an address that does not parse fails in its
\* constructor, and a wallet whose constructor failed never reads a
\* balance: no sample exists and no poll cycle is under way.
C18_UnparsableAddressIsFatal ==
  /\ (backend = "WalletSolana" /\ result.kind = "init"
        /\ result.address = "malformed") =>
       /\ result.outcome = "raised"
       /\ status = "failed"
  /\ status = "failed" =>
       /\ result.kind = "init"
       /\ init_sample = NoSample
       /\ last_sample = NoSample
       /\ pc = "idle"
       /\ raw = NoRaw
       /\ balance = 0
       /\ balance_previous = 0

\* C18 witness: WalletSolana with a usable signing key and an address that
\* does not parse has failed to construct.
C18_Witness ==
  /\ backend = "WalletSolana"
  /\ status = "failed"
  /\ result.kind = "init"
  /\ result.address = "malformed"
  /\ result.key = "valid"

\* C19: a fetch_balance call made by the host (a step that ends with a
\* result of kind fetch, other than _poll going to sleep, which returns
\* nothing), at any point and any number of times, leaves balance, balance_previous, the buffer and the waiting
\* _poll output as they were; every poll cycle still emits its sample minus
\* the sample of the cycle before it.
C19_FetchLeavesSamplerAlone ==
  /\ [][ (result'.kind = "fetch" /\ ~PollSleep) =>
          UNCHANGED << balance, balance_previous, messages, io_inputs,
                       raw, pc >> ]_vars
  /\ [](PollReturned => /\ result.change = result.balance - prev_sample
                        /\ balance_previous = result.balance)
  /\ [](status = "ready" => balance_previous = last_sample)

\* C19 witness: between two poll cycles, with a Message buffered, a direct
\* fetch_balance returned a value other than the wallet's balance.
C19_Witness ==
  /\ result.kind = "fetch"
  /\ result.outcome = "returned"
  /\ result.value # balance
  /\ pc = "idle"
  /\ Len(messages) = 1

\* C20: transfer and sign_message (the steps that end with a result of
\* kind transfer or sign, other than _poll going to sleep), at any point between or during poll cycles and
\* whether they succeed or fail, leave balance_previous, balance,
\* the buffer and the waiting _poll output as they were; the poll cycle
\* still emits its sample minus the preceding sample.
C20_SendLeavesSamplerAlone ==
  /\ [][ (result'.kind \in { "transfer", "sign" } /\ ~PollSleep) =>
          UNCHANGED << balance, balance_previous, messages, io_inputs,
                       raw, pc >> ]_vars
  /\ [](PollReturned => result.change = last_sample - init_sample)
  /\ [](status = "ready" => balance_previous = balance)

\* C20 witness: a transfer went out while the poll cycle was suspended.
C20_Witness ==
  /\ TransferReturned
  /\ result.status # "failed"
  /\ result.amount > 0
  /\ pc = "sleep"

RECURSIVE BufferedTotal(_)
\* Sum of the amounts the buffered Messages spell, in hundred-thousandths.
BufferedTotal(msgs) ==
  IF msgs = << >> THEN 0
  ELSE Head(msgs).message + BufferedTotal(Tail(msgs))

\* C21: a flush of a non-empty buffer returns, between the START and END
\* markers, the line "You just received <sum> <ASSET>." where <sum> is the
\* sum of the buffered amounts to 5 decimals and <ASSET> is the primary
\* asset in upper case; the IO provider is given the same line.
C21_SummaryLine ==
  [][ (FormattedLatestBuffer /\ messages # << >>) =>
        /\ result'.text[4] =
             << "You just received ", BufferedTotal(messages), " ",
                IF backend = "WalletSolana" THEN "SOL" ELSE "ETH", "." >>
        /\ result'.text[3] = "// START"
        /\ result'.text[5] = "// END"
        /\ SummaryLine(io_inputs'[Len(io_inputs')]) = result'.text[4]
    ]_vars

\* C21 witness: WalletSolana summarised two buffered Messages whose amounts
\* are not zero.
C21_Witness ==
  /\ FlushReturned
  /\ backend = "WalletSolana"
  /\ clock = 2
  /\ Len(io_inputs) = 1
  /\ result.text[4] = << "You just received ", 2, " ", "SOL", "." >>

\* A default-configured wallet on asset eth that has taken n samples of the
\* Scenario (the construction read is the first).
Observed(n) ==
  /\ status = "ready"
  /\ ~simulate_transfers
  /\ PrimaryAsset(backend) = "eth"
  /\ script # Unscripted
  /\ Len(script) = Len(Scenario) - n

\* C22: a wallet on asset eth that observes 10.0 at construction and then
\* 10.0, 12.5, 12.5, 11.0 emits the deltas 0, 2.5, 0, -1.5; the first flush
\* after the third sample was recorded reports 2.50000 ETH; recording the
\* fifth sample's negative delta adds no Message, and a flush after it,
\* when the summary has been taken, returns None.
C22_Scenario ==
  /\ [](PollReturned =>
          /\ Observed(2) => result.change = 0
          /\ Observed(3) => result.change = 2500000
          /\ Observed(4) => result.change = 0
          /\ Observed(5) => result.change = 0 - 1500000)
  /\ [][ (FormattedLatestBuffer /\ Observed(3) /\ raw = NoRaw
           /\ io_inputs = << >>) =>
          /\ ~result'.empty
          /\ result'.text[4] =
               << "You just received ", 250000, " ", "ETH", "." >> ]_vars
  /\ [][ (RawToText /\ Observed(5)) =>
          /\ raw[2] < 0
          /\ UNCHANGED messages ]_vars
  /\ [][ (FormattedLatestBuffer /\ Observed(5) /\ raw = NoRaw
           /\ io_inputs # << >>) =>
          /\ result'.empty
          /\ UNCHANGED io_inputs ]_vars

\* C22 witness: WalletEthereum has been through the whole Scenario: the one
\* summary given is 2.50000 ETH and the flush after the fifth sample
\* returned None.
C22_Witness ==
  /\ Observed(5)
  /\ backend = "WalletEthereum"
  /\ result.kind = "flush"
  /\ result.empty
  /\ raw = NoRaw
  /\ init_sample = 10000000
  /\ last_sample = 11000000
  /\ delta_sum = One
  /\ Len(io_inputs) = 1
  /\ SummaryLine(io_inputs[1]) =
       << "You just received ", 250000, " ", "ETH", "." >>

\* The last operation was a balance read that the chain answered.
ReadAnswered ==
  /\ result.kind \in { "poll", "fetch" }
  /\ result.outcome = "returned"
  /\ ~result.failed

\* C23: with simulate_transfers not set, fetch_balance returns what the
\* chain reported whenever the read succeeds, in _poll and called directly;
\* a failed read repeats the previous sample; and raw_to_text buffers a
\* Message only for a cycle whose sample is above the preceding one.
C23_NoSyntheticCredit ==
  /\ []((~simulate_transfers /\ ReadAnswered) =>
          IF result.kind = "poll"
            THEN /\ result.balance = result.reported
                 /\ last_sample = result.reported
            ELSE result.value = result.reported)
  /\ []((~simulate_transfers /\ PollReturned /\ result.failed) =>
          last_sample = prev_sample)
  /\ [][ (~simulate_transfers /\ RawToText
           /\ Len(messages') > Len(messages)) =>
          /\ raw[2] = last_sample - prev_sample
          /\ last_sample > prev_sample ]_vars

\* C23 witness: WalletEthereum without simulate_transfers has buffered a
\* Message for a rise the chain reported.
C23_Witness ==
  /\ backend = "WalletEthereum"
  /\ ~simulate_transfers
  /\ result.kind = "record"
  /\ result.change > 0
  /\ Len(messages) = 1
  /\ last_sample - prev_sample = result.change

\* C24: record and flush are atomic with respect to each other.  A record
\* of a positive delta adds its Message behind the buffered ones and takes
\* nothing away; a flush adds every buffered Message into its one summary
\* and leaves none; so in every order of records and flushes each Message
\* is in no summary while buffered and in exactly one afterwards.
C24_RecordFlushAtomic ==
  /\ [][ (RawToText /\ raw[2] > 0) =>
          /\ Len(messages') = Len(messages) + 1
          /\ SubSeq(messages', 1, Len(messages)) = messages
          /\ messages'[Len(messages')].timestamp \notin Buffered
          /\ UNCHANGED io_inputs ]_vars
  /\ [][ (FormattedLatestBuffer /\ messages # << >>) =>
          /\ messages' = << >>
          /\ Len(io_inputs') = Len(io_inputs) + 1
          /\ io_inputs'[Len(io_inputs')].amount = BufferedTotal(messages)
          /\ \A t \in DOMAIN summed :
               summed'[t].count =
                 summed[t].count + (IF t \in Buffered THEN 1 ELSE 0)
        ]_vars
  /\ [](\A t \in DOMAIN summed :
          summed[t].count = IF t \in Buffered THEN 0 ELSE 1)

\* C24 witness: a Message was recorded between two flushes; the first
\* summary holds the Message recorded before it, the second this one.
C24_Witness ==
  /\ result.kind = "flush"
  /\ ~result.empty
  /\ Len(io_inputs) = 2
  /\ clock = 2
  /\ summed[1].count = 1
  /\ summed[2].count = 1
  /\ io_inputs[1].timestamp = 1
  /\ io_inputs[2].timestamp = 2

\* C25: a poll cycle cancelled while it is suspended leaves balance and
\* balance_previous as they were before the cycle began; both are the last
\* completed sample at every moment, also while a cycle is suspended; they
\* change only in a step that returns a completed read; and a completed
\* cycle's delta is its sample minus the last completed sample.
C25_CancelKeepsState ==
  /\ [][ PollCancel =>
          UNCHANGED << balance, balance_previous, raw, messages,
                       last_sample, prev_sample >> ]_vars
  /\ [](status = "ready" => /\ balance = last_sample
                            /\ balance_previous = last_sample)
  /\ [][ (balance' # balance \/ balance_previous' # balance_previous) =>
          /\ result'.kind \in { "init", "poll" }
          /\ result'.outcome = "returned" ]_vars
  /\ [][ (PollFetch /\ result'.outcome = "returned") =>
          result'.change = result'.balance - last_sample ]_vars

\* C25 witness: a cycle was cancelled in its sleep after an earlier cycle
\* had moved the balance away from the one read at construction.
C25_Witness ==
  /\ result.kind = "poll"
  /\ result.outcome = "cancelled"
  /\ pc = "idle"
  /\ last_sample # init_sample
  /\ balance_previous = last_sample
  /\ balance = last_sample

\* C26: every buffered Message has an amount above 0, and when it is
\* buffered its amount is the positive delta it was recorded for.
C26_BufferedAmountIsDelta ==
  /\ [](\A i \in 1 .. Len(messages) : ParseFloat(messages[i].message) > 0)
  /\ [][ (RawToText /\ Len(messages') > Len(messages)) =>
          /\ raw[2] > 0
          /\ ParseFloat(messages'[Len(messages')].message) = raw[2] ]_vars

\* C27: on each backend the constructor leaves balance and
\* balance_previous at the balance it read; the first completed poll cycle
\* emits its sample minus that balance; and recording a first cycle whose
\* sample is the construction balance buffers nothing.
C27_ConstructionBaseline ==
  /\ []((result.kind = "init" /\ result.outcome = "returned") =>
          /\ init_sample # NoSample
          /\ balance = init_sample
          /\ balance_previous = init_sample)
  /\ [][ (PollFetch /\ prev_sample = NoSample
           /\ result'.outcome = "returned") =>
          result'.change = result'.balance - init_sample ]_vars
  /\ [][ (RawToText /\ prev_sample = init_sample
           /\ last_sample = init_sample) =>
          UNCHANGED messages ]_vars

\* C27 witness: a wallet constructed on a balance other than 0 has polled
\* the same balance and recorded the cycle without buffering a Message.
C27_Witness ==
  /\ init_sample > 0
  /\ last_sample = init_sample
  /\ prev_sample = init_sample
  /\ result.kind = "record"
  /\ result.change = 0
  /\ messages = << >>
  /\ clock = 0

\* C28: at every moment of a constructed wallet, after any number of
\* completed, failed or cancelled poll cycles, the signed sum of the deltas
\* _poll has returned (added up as floats) is balance_previous minus the
\* balance read at construction (subtracted as floats), and balance equals
\* balance_previous.
C28_DeltasTelescope ==
  status = "ready" =>
    /\ delta_sum = FloatSub(previous_double, Double(init_sample))
    /\ balance = balance_previous
    /\ balance_double = previous_double

\* C29: on WalletEthereum and WalletSolana with a signing credential, the
\* from_address of every successful transfer and the address of every
\* successful sign_message is get_wallet_address(), the polled address.
C29_SignerIsPolledAddress ==
  (backend \in { "WalletEthereum", "WalletSolana" } /\ signer # None) =>
    /\ (TransferReturned /\ result.status # "failed") =>
         result.from_address = WalletAddress(backend)
    /\ (result.kind = "sign" /\ result.outcome = "returned"
          /\ result.status = "success") =>
         result.address = WalletAddress(backend)

=============================================================================
